---- MODULE Spec2Model ----
(***************************************************************************)
(* The notebook "05 Model Architectures" (answer key): a branching        *)
(* (tree) network declared as three layer paths spliced at two branch     *)
(* nodes, a Multicost with one cost per leaf, model.initialize and        *)
(* model.fit.  The notebook is a linear script; its cells are the         *)
(* actions below, run in order.  What the calls into neon do is modelled  *)
(* as the notebook's own text describes it (the diagram, the Tree         *)
(* example, the paragraph on targets) and, where the notebook is silent,  *)
(* as the specification describes the framework's duty.                   *)
(*                                                                         *)
(* Reals are not available: the branch weights [1, 0.25, 0.25] are kept   *)
(* in units of 1/AlphaDenominator, i.e. <<4, 1, 1>>.                      *)
(***************************************************************************)
EXTENDS Integers, Sequences, FiniteSets, TLC

VARIABLES tree_arg, cost_arg, pc, train_set, valid_set, model, cost, constructed, initialized,
          shapes, optimizer, callbacks, epoch_index, batch, evals, updates,
          targets, fp_i, fp_j, x, branchOut, evalCount, inputOf, outputs,
          l_targets, losses, weighted, total_cost

vars == <<tree_arg, cost_arg, pc, train_set, valid_set, model, cost, constructed, initialized,
          shapes, optimizer, callbacks, epoch_index, batch, evals, updates,
          targets, fp_i, fp_j, x, branchOut, evalCount, inputOf, outputs,
          l_targets, losses, weighted, total_cost>>

(* ------------------------------ bounds -------------------------------- *)

\* minibatches per epoch (the real iterator yields 60000/128 of them)
NumBatches == 2
\* label values 0..MaxLabel stand for the class labels of a minibatch
MaxLabel == 1
\* per-leaf loss values 0..MaxLoss stand for the cross-entropy of a leaf
MaxLoss == 2
\* alphas lists and cost lists of 1..MaxCount entries are tried against the
\* path lists when the counts of an arbitrary topology are examined
MaxCount == 3

(* ------------------------ program constants --------------------------- *)

\* width of one MNIST input vector (28 x 28 pixels), from load_mnist()
nin == 784
\* number of classes returned by load_mnist()
nclass == 10
\* faulty variant of num_epochs: one epoch more
num_epochs_eleven == 10 + 1

\* model.fit(..., num_epochs=10, ...)
num_epochs == 10
\* Callbacks(model, eval_set=valid_set, eval_freq=1)
eval_freq == 1
\* alphas are held as multiples of 1/4
AlphaDenominator == 4

None == [kind |-> "None"]

(* --------------------------- layer records ---------------------------- *)

init_norm == [kind |-> "Gaussian", loc |-> 0, scale_percent |-> 1]

normrelu == [init |-> init_norm, activation |-> "Rectlin"]
normsigm == [init |-> init_norm, activation |-> "Logistic"]
normsoft == [init |-> init_norm, activation |-> "Softmax"]

Affine(n, nm, cfg) ==
    [kind |-> "Affine", nout |-> n, name |-> nm,
     init |-> cfg.init, activation |-> cfg.activation]

BranchNode(nm) == [kind |-> "BranchNode", name |-> nm]

IsBranch(l) == l.kind = "BranchNode"
IsLayer(l) == l.kind = "Affine"

b1 == BranchNode("b1")
b2 == BranchNode("b2")

\* faulty variants of p1: b1 listed one element too late; b2 one element too early
p1_b1_late == << Affine(100, "m_l1", normrelu),
                 Affine(32, "m_l2", normrelu),
                 b1,
                 Affine(16, "m_l3", normrelu),
                 b2,
                 Affine(10, "m_l4", normsoft) >>

p1_b2_early == << Affine(100, "m_l1", normrelu),
                  b1,
                  Affine(32, "m_l2", normrelu),
                  b2,
                  Affine(16, "m_l3", normrelu),
                  Affine(10, "m_l4", normsoft) >>

\* the main trunk (cost1)
p1 == << Affine(100, "m_l1", normrelu),
         b1,
         Affine(32, "m_l2", normrelu),
         Affine(16, "m_l3", normrelu),
         b2,
         Affine(10, "m_l4", normsoft) >>

\* faulty variant of p2: the output layer of the branch left out
p2_no_output == << b1,
                   Affine(16, "b1_l1", normrelu) >>

\* the branch (cost2)
p2 == << b1,
         Affine(16, "b1_l1", normrelu),
         Affine(10, "b1_l2", normsoft) >>

\* faulty variant of p3: the branch hung on the wrong marker
p3_on_b1 == << b1,
               Affine(16, "b2_l1", normrelu),
               Affine(10, "b2_l2", normsoft) >>

\* the branch (cost3)
p3 == << b2,
         Affine(16, "b2_l1", normrelu),
         Affine(10, "b2_l2", normsoft) >>

\* faulty variants of alphas: one weight missing; the weights of the Tree example
alphas_two == <<4, 1>>

alphas_ones == <<4, 4, 4>>

\* alphas = [1, 0.25, 0.25], in quarters
alphas == <<4, 1, 1>>

\* SingleOutputTree([p1, p2, p3], alphas=alphas) wrapped in Model(layers=...)
SingleOutputTree(paths, al) == [layers |-> paths, alphas |-> al]

\* faulty variant of the path list: a branch listed before the trunk
TreeArg_branch_first == SingleOutputTree(<<p2, p1, p3>>, alphas)

TreeArg == SingleOutputTree(<<p1, p2, p3>>, alphas)

GeneralizedCost(f) == [kind |-> "GeneralizedCost", costfunc |-> f]

Multicost(cs) == [costs |-> cs]

CostArg ==
    Multicost(<< GeneralizedCost("CrossEntropyMulti"),
                 GeneralizedCost("CrossEntropyMulti"),
                 GeneralizedCost("CrossEntropyMulti") >>)

(* ------------------- what the framework calls do ---------------------- *)

Range(s) == {s[k] : k \in 1..Len(s)}

Last(s) == s[Len(s)]

\* every element of every path
Elements(paths) == UNION {Range(paths[i]) : i \in 1..Len(paths)}

LayerNames(paths) == {l.name : l \in {e \in Elements(paths) : IsLayer(e)}}

MarkerNames(paths) == {l.name : l \in {e \in Elements(paths) : IsBranch(e)}}

\* A shape is a tuple of widths; the empty tuple is "no shape yet" (None).
NoShape == <<>>

\* Sequential.configure on one path from element k on.  w is the shape
\* handed to element k.  An Affine layer takes any input width and emits
\* nout; a branch node handed a shape keeps it, and handed None gives the
\* shape it kept when the trunk was configured.  ok turns FALSE when an
\* element is handed no shape at all.
RECURSIVE ConfigureFrom(_, _, _, _)
ConfigureFrom(path, k, w, st) ==
    IF k > Len(path) THEN st
    ELSE LET l == path[k] IN
         IF IsBranch(l)
         THEN LET bw == IF w # NoShape THEN w ELSE st.branch[l.name] IN
              ConfigureFrom(path, k + 1, bw,
                  [st EXCEPT !.branch[l.name] = bw,
                             !.ok = st.ok /\ bw # NoShape])
         ELSE ConfigureFrom(path, k + 1, <<l.nout>>,
                  [st EXCEPT !.shapes[l.name] = [in |-> w, out |-> <<l.nout>>],
                             !.ok = st.ok /\ w # NoShape])

\* Tree.configure: the first path gets the data shape, every later path
\* gets None and must start from a branch node already configured.
RECURSIVE ConfigurePaths(_, _, _, _)
ConfigurePaths(paths, i, in_obj, st) ==
    IF i > Len(paths) THEN st
    ELSE ConfigurePaths(paths, i + 1, NoShape,
                        ConfigureFrom(paths[i], 1, in_obj, st))

Configure(paths, in_obj) ==
    ConfigurePaths(paths, 1, in_obj,
        [shapes |-> [n \in LayerNames(paths) |->
                        [in |-> NoShape, out |-> NoShape]],
         branch |-> [n \in MarkerNames(paths) |-> NoShape],
         ok     |-> TRUE])

\* Splicing the paths at their branch nodes: the walk of the forward pass
\* with only the producer of each value kept.  parent[n] is the node whose
\* output layer n consumes ("data" for the input, "none" when nothing
\* reaches it); branch[b] is the producer remembered by marker b.
RECURSIVE SpliceFrom(_, _, _, _)
SpliceFrom(path, k, src, st) ==
    IF k > Len(path) THEN st
    ELSE LET l == path[k] IN
         IF IsBranch(l)
         THEN LET bs == IF src # "none" THEN src ELSE st.branch[l.name] IN
              SpliceFrom(path, k + 1, bs, [st EXCEPT !.branch[l.name] = bs])
         ELSE SpliceFrom(path, k + 1, l.name,
                         [st EXCEPT !.parent[l.name] = src])

RECURSIVE SplicePaths(_, _, _, _)
SplicePaths(paths, i, src, st) ==
    IF i > Len(paths) THEN st
    ELSE SplicePaths(paths, i + 1, "none", SpliceFrom(paths[i], 1, src, st))

Splice(paths) ==
    SplicePaths(paths, 1, "data",
        [parent |-> [n \in LayerNames(paths) |-> "none"],
         branch |-> [n \in MarkerNames(paths) |-> "none"]])

\* faulty variant of MatchTargets: a single label tensor reaches the first cost only
MatchTargets_first_only(t, cs) ==
    IF t.nested THEN t.Y ELSE <<t.Y>>

\* Multicost.get_cost's matching of targets to costs: one label tensor is
\* used against every output, a nested tuple is matched positionally.
MatchTargets(t, cs) ==
    IF t.nested THEN t.Y ELSE [i \in 1..Len(cs) |-> t.Y]

\* each leaf's loss times its coefficient, position by position
Weigh(al, ls) == [i \in 1..Len(ls) |-> al[i] * ls[i]]

RECURSIVE SumSeq(_)
SumSeq(s) == IF s = <<>> THEN 0 ELSE s[1] + SumSeq(Tail(s))

\* number of cost functions, paths and alphas agree
CountsAgree(m, c) ==
    /\ Len(m.layers) = Len(m.alphas)
    /\ Len(m.layers) = Len(c.costs)

(* ------------------------------- state -------------------------------- *)

Labels == 0..MaxLabel
LossValues == 0..MaxLoss

NoCounts(paths) == [n \in LayerNames(paths) |-> 0]
NoInputs(paths) == [n \in LayerNames(paths) |-> "none"]
NoBranch(paths) == [n \in MarkerNames(paths) |-> None]

\* The state before the first code cell runs, for a notebook whose model
\* cell passes tree and whose cost cell passes cst.
Start(tree, cst) ==
    /\ tree_arg = tree
    /\ cost_arg = cst
    /\ pc = "load_data"
    /\ train_set = None
    /\ valid_set = None
    /\ model = None
    /\ cost = None
    /\ constructed = 0
    /\ initialized = FALSE
    /\ shapes = None
    /\ optimizer = None
    /\ callbacks = None
    /\ epoch_index = 0
    /\ batch = 0
    /\ evals = 0
    /\ updates = 0
    /\ targets = None
    /\ fp_i = 0
    /\ fp_j = 0
    /\ x = None
    /\ branchOut = NoBranch(tree.layers)
    /\ evalCount = NoCounts(tree.layers)
    /\ inputOf = NoInputs(tree.layers)
    /\ outputs = <<>>
    /\ l_targets = <<>>
    /\ losses = <<>>
    /\ weighted = <<>>
    /\ total_cost = 0

\* the notebook as written
Init == Start(TreeArg, CostArg)

\* Topologies assembled by the notebook's convention: the trunk first, then
\* any of its branches, each starting at its marker; one alpha list and one
\* cost list of any length up to MaxCount.  The notebook's own tree and
\* cost are among them.
PathChoices == {<<p1>>, <<p1, p2>>, <<p1, p3>>, <<p1, p2, p3>>}

AlphaChoices ==
    {alphas} \cup
    {[i \in 1..n |-> IF i = 1 THEN AlphaDenominator ELSE 1] : n \in 1..MaxCount}

CostChoices ==
    {CostArg} \cup
    {Multicost([i \in 1..n |-> GeneralizedCost("CrossEntropyMulti")]) :
        n \in 1..MaxCount}

TreeChoices ==
    {TreeArg} \cup
    {SingleOutputTree(ps, al) : ps \in PathChoices, al \in AlphaChoices}

InitAny ==
    \E tree \in TreeChoices : \E cst \in CostChoices : Start(tree, cst)

fpVars == <<fp_i, fp_j, x, branchOut, evalCount, inputOf, outputs>>
costVars == <<l_targets, losses, weighted, total_cost>>
loopVars == <<epoch_index, batch, evals, updates>>
setupVars == <<tree_arg, cost_arg, train_set, valid_set, model, cost, constructed, initialized,
               shapes, optimizer, callbacks>>

ArrayIterator(nc) == [kind |-> "ArrayIterator", nclass |-> nc]

\* the alternative the notebook describes: an iterator that yields
\* (X, (Y1, Y2, Y3))
NestedIterator(nc) == [kind |-> "NestedIterator", nclass |-> nc]

\* the target part of the minibatches an iterator can yield
Minibatches(it) ==
    IF it.kind = "ArrayIterator"
    THEN {[nested |-> FALSE, Y |-> y] : y \in Labels}
    ELSE {[nested |-> TRUE, Y |-> <<y[1], y[2], y[3]>>] :
              y \in Labels \X Labels \X Labels}

Tensor(s, w) == [kind |-> "Tensor", src |-> s, width |-> w]

\* cell 2: backend, data and the two iterators
LoadData ==
    /\ pc = "load_data"
    /\ \E it \in {ArrayIterator(nclass), NestedIterator(nclass)} :
           train_set' = it
    /\ valid_set' = ArrayIterator(nclass)
    /\ pc' = "build_model"
    /\ UNCHANGED <<model, cost, constructed, initialized, shapes, optimizer,
                   callbacks, targets>>
    /\ UNCHANGED <<fpVars, costVars, loopVars, tree_arg, cost_arg>>

\* cell 3: branch nodes, paths, alphas, Model(layers=SingleOutputTree(...))
BuildModel ==
    /\ pc = "build_model"
    /\ model' = tree_arg
    /\ constructed' = constructed + 1
    /\ pc' = "build_cost"
    /\ UNCHANGED <<train_set, valid_set, cost, initialized, shapes, optimizer,
                   callbacks, targets>>
    /\ UNCHANGED <<fpVars, costVars, loopVars, tree_arg, cost_arg>>

\* cell 4: cost = Multicost(costs=[...])
BuildCost ==
    /\ pc = "build_cost"
    /\ cost' = cost_arg
    /\ pc' = "initialize"
    /\ UNCHANGED <<train_set, valid_set, model, constructed, initialized,
                   shapes, optimizer, callbacks, targets>>
    /\ UNCHANGED <<fpVars, costVars, loopVars, tree_arg, cost_arg>>

\* cell 5: model.initialize(train_set, cost)
Initialize ==
    /\ pc = "initialize"
    /\ LET st == Configure(model.layers, <<nin>>) IN
       IF CountsAgree(model, cost) /\ st.ok
       THEN /\ shapes' = st.shapes
            /\ initialized' = TRUE
            /\ pc' = "fit"
       ELSE /\ pc' = "error"
            /\ UNCHANGED <<shapes, initialized>>
    /\ UNCHANGED <<train_set, valid_set, model, cost, constructed, optimizer,
                   callbacks, targets>>
    /\ UNCHANGED <<fpVars, costVars, loopVars, tree_arg, cost_arg>>

\* cell 6: optimizer, callbacks and the entry into model.fit
FitBegin ==
    /\ pc = "fit"
    /\ optimizer' = [kind |-> "GradientDescentMomentum",
                     learning_rate_tenths |-> 1, momentum_coef_tenths |-> 9]
    /\ callbacks' = [eval_set |-> valid_set, eval_freq |-> eval_freq]
    /\ epoch_index' = 0
    /\ batch' = 0
    /\ pc' = IF 0 < num_epochs THEN "next_batch" ELSE "done"
    /\ UNCHANGED <<train_set, valid_set, model, cost, constructed, initialized,
                   shapes, evals, updates, targets>>
    /\ UNCHANGED <<fpVars, costVars, tree_arg, cost_arg>>

\* fit: the iterator yields the next minibatch (X, t) and the forward pass
\* starts with X handed to the first path; what the previous minibatch left
\* in the forward and cost buffers is stale and is dropped
NextBatch ==
    /\ pc = "next_batch"
    /\ batch < NumBatches
    /\ \E t \in Minibatches(train_set) : targets' = t
    /\ fp_i' = 1
    /\ fp_j' = 1
    /\ x' = Tensor("data", nin)
    /\ branchOut' = NoBranch(model.layers)
    /\ evalCount' = NoCounts(model.layers)
    /\ inputOf' = NoInputs(model.layers)
    /\ outputs' = <<>>
    /\ l_targets' = <<>>
    /\ losses' = <<>>
    /\ weighted' = <<>>
    /\ total_cost' = 0
    /\ pc' = "fprop"
    /\ UNCHANGED <<setupVars, loopVars>>

\* fit: one element of the forward pass.  A layer consumes x and emits its
\* own output; a branch node handed a value remembers it and passes it on,
\* and handed None gives the remembered value.  At the end of a path its
\* last value is one output of the tree and the next path is handed None.
FpropStep ==
    /\ pc = "fprop"
    /\ LET path == model.layers[fp_i]
           l == path[fp_j]
           y == IF IsBranch(l)
                THEN (IF x # None THEN x ELSE branchOut[l.name])
                ELSE Tensor(l.name, l.nout)
           endOfPath == fp_j = Len(path)
           endOfTree == endOfPath /\ fp_i = Len(model.layers)
       IN
       IF y = None \/ (IsLayer(l) /\ x = None)
       THEN /\ pc' = "error"
            /\ UNCHANGED fpVars
       ELSE /\ branchOut' = IF IsBranch(l)
                            THEN [branchOut EXCEPT ![l.name] = y]
                            ELSE branchOut
            /\ evalCount' = IF IsLayer(l)
                            THEN [evalCount EXCEPT ![l.name] = @ + 1]
                            ELSE evalCount
            /\ inputOf' = IF IsLayer(l)
                          THEN [inputOf EXCEPT ![l.name] = x.src]
                          ELSE inputOf
            /\ outputs' = IF endOfPath THEN Append(outputs, y) ELSE outputs
            /\ x' = IF endOfPath THEN None ELSE y
            /\ fp_j' = IF endOfPath THEN 1 ELSE fp_j + 1
            /\ fp_i' = IF endOfPath /\ ~endOfTree THEN fp_i + 1 ELSE fp_i
            /\ pc' = IF endOfTree THEN "get_cost" ELSE "fprop"
    /\ UNCHANGED <<setupVars, costVars, loopVars, targets>>

\* fit: the cost of the minibatch.  The per-leaf losses are whatever the
\* cost functions compute; each is weighed by its leaf's coefficient and
\* the weighed losses are summed.
GetCost ==
    /\ pc = "get_cost"
    /\ l_targets' = MatchTargets(targets, cost.costs)
    /\ \E ls \in [1..Len(cost.costs) -> LossValues] :
           /\ losses' = ls
           /\ weighted' = Weigh(model.alphas, ls)
           /\ total_cost' = SumSeq(Weigh(model.alphas, ls))
    /\ pc' = "bprop"
    /\ UNCHANGED <<setupVars, fpVars, loopVars, targets>>

\* fit: backward pass and optimizer step, which changes the weights
Bprop ==
    /\ pc = "bprop"
    /\ updates' = updates + 1
    /\ batch' = batch + 1
    /\ pc' = "next_batch"
    /\ UNCHANGED <<setupVars, fpVars, costVars, epoch_index, evals, targets>>

\* fit: the iterator is exhausted; the epoch ends, the callbacks evaluate on
\* the validation set every eval_freq epochs, and fit goes on or returns
EpochEnd ==
    /\ pc = "next_batch"
    /\ batch = NumBatches
    /\ epoch_index' = epoch_index + 1
    /\ evals' = IF (epoch_index + 1) % callbacks.eval_freq = 0
                THEN evals + 1 ELSE evals
    /\ batch' = 0
    /\ pc' = IF epoch_index + 1 < num_epochs THEN "next_batch" ELSE "done"
    /\ UNCHANGED <<setupVars, fpVars, costVars, updates, targets>>

Next ==
    \/ LoadData
    \/ BuildModel
    \/ BuildCost
    \/ Initialize
    \/ FitBegin
    \/ NextBatch
    \/ FpropStep
    \/ GetCost
    \/ Bprop
    \/ EpochEnd

Spec == Init /\ [][Next]_vars

\* the same run for every topology of the convention
SpecAny == InitAny /\ [][Next]_vars

(* ---------------------- the notebook's diagram ------------------------ *)

\* The topology drawn at the top of the notebook: for each layer, the node
\* directly below it.
DiagramParent ==
    [n \in {"m_l1", "m_l2", "m_l3", "m_l4",
            "b1_l1", "b1_l2", "b2_l1", "b2_l2"} |->
        CASE n = "m_l1"  -> "data"
          [] n = "m_l2"  -> "m_l1"
          [] n = "m_l3"  -> "m_l2"
          [] n = "m_l4"  -> "m_l3"
          [] n = "b1_l1" -> "m_l1"
          [] n = "b1_l2" -> "b1_l1"
          [] n = "b2_l1" -> "m_l3"
          [] n = "b2_l2" -> "b2_l1"]

\* The layer below each fork of the diagram: the branch to cost2 leaves the
\* trunk above m_l1, the branch to cost3 above m_l3.
DiagramFork == [b \in {"b1", "b2"} |-> IF b = "b1" THEN "m_l1" ELSE "m_l3"]

\* a is strictly below n in the diagram
RECURSIVE Below(_, _)
Below(a, n) ==
    /\ n # "data"
    /\ \/ DiagramParent[n] = a
       \/ Below(a, DiagramParent[n])

(* ------------------------- helpers of the claims ---------------------- *)

Built == model # None

Names(path) == [k \in 1..Len(path) |-> path[k].name]

\* positions of the element called n in a path
Pos(path, n) == {k \in 1..Len(path) : path[k].name = n}

PathsWith(paths, n) == {i \in 1..Len(paths) : Pos(paths[i], n) # {}}

SharedMarkers(paths) ==
    {b \in MarkerNames(paths) : Cardinality(PathsWith(paths, b)) > 1}

TerminalLayers(paths) == [i \in 1..Len(paths) |-> Last(paths[i])]

\* how many elements of all paths are layers (with repetitions)
RECURSIVE CountLayers(_)
CountLayers(path) ==
    IF path = <<>> THEN 0
    ELSE (IF IsLayer(Head(path)) THEN 1 ELSE 0) + CountLayers(Tail(path))

RECURSIVE CountAllLayers(_)
CountAllLayers(paths) ==
    IF paths = <<>> THEN 0
    ELSE CountLayers(Head(paths)) + CountAllLayers(Tail(paths))

\* n reaches "data" along parent links in at most k steps
RECURSIVE ReachesData(_, _, _)
ReachesData(parent, n, k) ==
    \/ n = "data"
    \/ /\ k > 0
       /\ n \in DOMAIN parent
       /\ ReachesData(parent, parent[n], k - 1)

ForwardDone == pc \in {"get_cost", "bprop"}

BeforeFit == pc \in {"load_data", "build_model", "build_cost", "initialize", "fit"}

(* ------------------------------ claims -------------------------------- *)

\* C1: the notebook passes 3 paths to SingleOutputTree, 3 cost functions to
\* Multicost and 3 alphas, and its configuration is accepted; and for every
\* topology assembled by the same convention, a configuration in which the
\* three counts are not all equal is invalid: it is rejected at
\* initialization, is never initialized and never trained, while one in
\* which they agree is never rejected.
C1_CountsEqual ==
    /\ Len(TreeArg.layers) = 3
    /\ Len(TreeArg.alphas) = 3
    /\ Len(CostArg.costs) = 3
    /\ (tree_arg = TreeArg /\ cost_arg = CostArg) => pc # "error"
    /\ LET np == Len(tree_arg.layers)
           na == Len(tree_arg.alphas)
           nc == Len(cost_arg.costs)
       IN
       /\ (np # na \/ np # nc) =>
            /\ ~initialized
            /\ updates = 0
            /\ pc \in {"load_data", "build_model", "build_cost",
                       "initialize", "error"}
       /\ (np = na /\ np = nc) => pc # "error"
       /\ initialized => (np = na /\ np = nc)

\* a topology with three paths and only two alphas has been rejected
C1_Witness ==
    /\ pc = "error"
    /\ ~initialized
    /\ model.layers = <<p1, p2, p3>>
    /\ Len(model.alphas) = 2
    /\ Len(cost.costs) = 3

\* C2: initializing on the 784-wide input succeeds and gives every layer
\* the stated input and output widths: trunk 784 -> 100 -> 32 -> 16 -> 10,
\* branch b1 100 -> 16 -> 10, branch b2 16 -> 16 -> 10; every terminal layer
\* emits a 10-wide output.
C2_Shapes ==
    /\ pc # "error"
    /\ pc \notin {"load_data", "build_model", "build_cost", "initialize"}
          => initialized
    /\ initialized =>
         /\ shapes["m_l1"]  = [in |-> <<784>>, out |-> <<100>>]
         /\ shapes["m_l2"]  = [in |-> <<100>>, out |-> <<32>>]
         /\ shapes["m_l3"]  = [in |-> <<32>>,  out |-> <<16>>]
         /\ shapes["m_l4"]  = [in |-> <<16>>,  out |-> <<10>>]
         /\ shapes["b1_l1"] = [in |-> <<100>>, out |-> <<16>>]
         /\ shapes["b1_l2"] = [in |-> <<16>>,  out |-> <<10>>]
         /\ shapes["b2_l1"] = [in |-> <<16>>,  out |-> <<16>>]
         /\ shapes["b2_l2"] = [in |-> <<16>>,  out |-> <<10>>]
         /\ DOMAIN shapes = LayerNames(model.layers)
         /\ \A i \in 1..Len(model.layers) :
                shapes[Last(model.layers[i]).name].out = <<10>>

C2_Witness ==
    /\ pc = "fit"
    /\ initialized
    /\ shapes["b1_l1"].in = shapes["m_l1"].out
    /\ shapes["b2_l1"].in = shapes["m_l3"].out

\* C3: the tree has exactly three terminal layers, m_l4, b1_l2 and b2_l2
\* (the last elements of p1, p2, p3), each a layer with nout = 10 = nclass;
\* the outputs of a forward pass are the outputs of these three layers and
\* of no other layer.
C3_Terminals ==
    /\ Built =>
         LET t == TerminalLayers(model.layers) IN
         /\ Len(t) = 3
         /\ Names(t) = <<"m_l4", "b1_l2", "b2_l2">>
         /\ \A i \in 1..Len(t) : /\ IsLayer(t[i])
                                 /\ t[i].nout = 10
                                 /\ t[i].nout = train_set.nclass
    /\ \A k \in 1..Len(outputs) :
         /\ outputs[k].src = Last(model.layers[k]).name
         /\ outputs[k].width = train_set.nclass
    /\ Len(outputs) <= 3
    /\ ForwardDone => Len(outputs) = 3

C3_Witness ==
    /\ pc = "get_cost"
    /\ [k \in 1..Len(outputs) |-> outputs[k].src] = <<"m_l4", "b1_l2", "b2_l2">>

\* C4: every branch marker referenced by more than one path (b1 and b2)
\* stands, in each path that references it, before every layer of that path
\* that lies above its fork in the diagram and after the layer below the
\* fork: first in p2 and in p3, and in p1 m_l1 < b1 < m_l2 and
\* m_l3 < b2 < m_l4.
C4_MarkerOrder ==
    Built =>
      LET paths == model.layers IN
      /\ SharedMarkers(paths) = {"b1", "b2"}
      /\ PathsWith(paths, "b1") = {1, 2}
      /\ PathsWith(paths, "b2") = {1, 3}
      /\ \A b \in SharedMarkers(paths) : \A i \in PathsWith(paths, b) :
           /\ Cardinality(Pos(paths[i], b)) = 1
           /\ \A kb \in Pos(paths[i], b) : \A k \in 1..Len(paths[i]) :
                IsLayer(paths[i][k]) =>
                  /\ Below(DiagramFork[b], paths[i][k].name) => kb < k
                  /\ paths[i][k].name = DiagramFork[b] => k < kb
      /\ Pos(paths[2], "b1") = {1}
      /\ Pos(paths[3], "b2") = {1}
      /\ \A k \in 2..Len(paths[2]) : IsLayer(paths[2][k])
      /\ \A k \in 2..Len(paths[3]) : IsLayer(paths[3][k])
      /\ Names(paths[1]) = <<"m_l1", "b1", "m_l2", "m_l3", "b2", "m_l4">>

C4_Witness ==
    /\ pc = "fprop"
    /\ fp_i = 2
    /\ fp_j = 2
    /\ branchOut["b1"] = Tensor("m_l1", 100)

\* C5: the path list is trunk-first: its first path starts with a layer and
\* is the only one that does; every later path starts with a branch marker
\* that occurs in a path listed before it.
C5_TrunkFirst ==
    Built =>
      LET paths == model.layers IN
      /\ IsLayer(paths[1][1])
      /\ {i \in 1..Len(paths) : IsLayer(paths[i][1])} = {1}
      /\ \A i \in 2..Len(paths) :
           /\ IsBranch(paths[i][1])
           /\ \E j \in 1..(i - 1) : Pos(paths[j], paths[i][1].name) # {}

C5_Witness ==
    /\ pc = "build_cost"
    /\ Built
    /\ Len(model.layers) = 3
    /\ Names(model.layers[2])[1] = "b1"

\* C6: the paths spliced at their markers form the tree of the diagram: one
\* root (m_l1, fed by the data), three leaves, every layer listed once and
\* linked to the input by its single chain of parents (so no cycle), b1
\* forking directly after m_l1 and b2 directly after m_l3; a forward pass
\* feeds every layer from its parent in the diagram.
C6_Tree ==
    /\ Built =>
         LET paths == model.layers
             g == Splice(paths)
             nodes == LayerNames(paths)
             leaves == {n \in nodes : \A c \in nodes : g.parent[c] # n}
         IN
         /\ g.parent = DiagramParent
         /\ g.branch = DiagramFork
         /\ {n \in nodes : g.parent[n] = "data"} = {"m_l1"}
         /\ leaves = {"m_l4", "b1_l2", "b2_l2"}
         /\ Cardinality(leaves) = 3
         /\ CountAllLayers(paths) = Cardinality(nodes)
         /\ \A n \in nodes : ReachesData(g.parent, n, Cardinality(nodes))
    /\ ForwardDone => inputOf = DiagramParent

C6_Witness ==
    /\ pc = "get_cost"
    /\ inputOf["b1_l1"] = "m_l1"
    /\ inputOf["b2_l1"] = "m_l3"
    /\ inputOf["m_l1"] = "data"

\* C7: there is one coefficient per path, matched by position (alphas
\* [1, 0.25, 0.25], i.e. <<4, 1, 1>> quarters, for [p1, p2, p3]); no
\* coefficient is negative; each leaf's loss is multiplied by its
\* coefficient before the sum, and the total is
\* 1*cost1 + 0.25*cost2 + 0.25*cost3, in quarters 4*cost1 + cost2 + cost3.
C7_WeightedLoss ==
    /\ Built =>
         /\ Len(model.alphas) = Len(model.layers)
         /\ model.alphas = <<AlphaDenominator, 1, 1>>
         /\ \A i \in 1..Len(model.alphas) : model.alphas[i] >= 0
    /\ pc = "bprop" =>
         /\ Len(losses) = 3
         /\ weighted = <<4 * losses[1], losses[2], losses[3]>>
         /\ total_cost = 4 * losses[1] + losses[2] + losses[3]
         /\ total_cost = weighted[1] + weighted[2] + weighted[3]

C7_Witness ==
    /\ pc = "bprop"
    /\ losses = <<1, 2, 2>>
    /\ total_cost = 8

\* C8: a minibatch with a single label tensor Y gives that same Y as the
\* target of each of the three costs; a nested minibatch (X, (Y1, Y2, Y3))
\* gives Yi as the target of the i-th cost; either way there are as many
\* targets as leaves.
C8_Targets ==
    pc = "bprop" =>
      /\ Len(l_targets) = Len(model.layers)
      /\ Len(l_targets) = 3
      /\ DOMAIN l_targets = DOMAIN cost.costs
      /\ ~targets.nested => \A i \in 1..3 : l_targets[i] = targets.Y
      /\ targets.nested => \A i \in 1..3 : l_targets[i] = targets.Y[i]

C8_Witness ==
    /\ pc = "bprop"
    /\ train_set.kind = "ArrayIterator"
    /\ ~targets.nested
    /\ targets.Y = 1
    /\ l_targets = <<1, 1, 1>>

\* C9: the model is constructed once; no weight is changed before the
\* model is initialized and fit is entered; fit runs exactly 10 epochs
\* with one evaluation after each (10 in all), never starts an eleventh,
\* and the run goes on until fit has returned and then stops.
C9_Lifecycle ==
    /\ constructed <= 1
    /\ Built <=> constructed = 1
    /\ updates > 0 => initialized
    /\ BeforeFit => /\ updates = 0
                    /\ epoch_index = 0
                    /\ evals = 0
    /\ epoch_index <= 10
    /\ evals = epoch_index
    /\ pc \in {"fprop", "get_cost", "bprop"} => epoch_index < 10
    /\ updates <= 10 * NumBatches
    /\ pc = "done" => /\ epoch_index = 10
                      /\ evals = 10
                      /\ updates = 10 * NumBatches
    /\ pc = "done" <=> ~ENABLED Next

C9_Witness ==
    /\ pc = "done"
    /\ epoch_index = 10
    /\ evals = 10
    /\ initialized

\* C10: in a forward pass no layer is evaluated twice and, when the pass is
\* complete, every layer has been evaluated once; m_l2 and b1_l1 both
\* consume the output of m_l1, m_l4 and b2_l1 both consume the output of
\* m_l3; a layer is evaluated only after the layer that feeds it and after
\* every element that precedes it in its path; the pass never fails.
C10_SharedPrefixOnce ==
    /\ pc # "error"
    /\ \A n \in DOMAIN evalCount : evalCount[n] <= 1
    /\ ForwardDone =>
         /\ DOMAIN evalCount = {"m_l1", "m_l2", "m_l3", "m_l4",
                                "b1_l1", "b1_l2", "b2_l1", "b2_l2"}
         /\ \A n \in DOMAIN evalCount : evalCount[n] = 1
         /\ inputOf["m_l2"] = "m_l1"
         /\ inputOf["b1_l1"] = "m_l1"
         /\ inputOf["m_l4"] = "m_l3"
         /\ inputOf["b2_l1"] = "m_l3"
    /\ \A n \in DOMAIN evalCount :
         evalCount[n] = 1 =>
           \/ inputOf[n] = "data"
           \/ evalCount[inputOf[n]] = 1
    /\ Built =>
         \A i \in 1..Len(model.layers) : \A k \in 1..Len(model.layers[i]) :
           LET path == model.layers[i] IN
           (IsLayer(path[k]) /\ evalCount[path[k].name] = 1) =>
              \A j \in 1..(k - 1) :
                 IF IsLayer(path[j])
                 THEN evalCount[path[j].name] = 1
                 ELSE branchOut[path[j].name] # None

C10_Witness ==
    /\ pc = "get_cost"
    /\ \A n \in DOMAIN evalCount : evalCount[n] = 1
    /\ branchOut["b1"].src = "m_l1"
    /\ branchOut["b2"].src = "m_l3"

====
